---- MODULE Spec2Model ----
(***************************************************************************)
(* Model of the spaced-repetition core: SM2Algorithm (srs/algorithm.ts)    *)
(* and StudyScheduler (srs/scheduler.ts).                                  *)
(*                                                                         *)
(* Representation                                                          *)
(*   - ease factors are integers in thousandths (2.5 is 2500);             *)
(*   - a Date is an integer tick count, one day is TicksPerDay ticks;      *)
(*   - a nullable Date is <<>> (null) or <<t>>;                            *)
(*   - a Map is a function whose DOMAIN is the set of keys it holds.       *)
(*                                                                         *)
(* Ten specifications:                                                     *)
(*   Spec        the StudyScheduler driven by its public operations;       *)
(*   EngineSpec  one default card driven through calculateNext alone,      *)
(*               each review remembered with the card it was applied to;   *)
(*   DeepSpec    the same card over runs long enough to reach both         *)
(*               ease-factor limits;                                       *)
(*   OrderSpec   getOptimalStudyOrder applied to an array of cards;        *)
(*   PersistSpec Spec with importState among the operations;               *)
(*   ConserveSpec  Spec without reset, no card id added twice;             *)
(*   AliasSpec   the scheduler and a caller that keeps returned objects;   *)
(*   ConcurrentSpec  two callers that each submit one review of a card;    *)
(*   StatsSpec   calculateStats applied to a collection of cards;          *)
(*   LegacySpec  the legacy scheduleNextReview of srs.ts applied to a pair *)
(*               of numbers.                                               *)
(***************************************************************************)
EXTENDS Integers, Sequences, FiniteSets, TLC

VARIABLES
    cards,      \* StudyScheduler.cards    : card id -> SRSCard
    sessions,   \* StudyScheduler.sessions : session id -> StudySession
    now,        \* the clock read by new Date() / Date.now()
    thrown,     \* the error the last call threw, "none" when it returned
    nSubmits,   \* successful submitReview calls since construction
    streak,     \* engine runs: {} before any review, {q} while every review
                \* so far had quality q, QualityRating once they differ
    last,       \* EngineSpec: <<>> before any review, then the quality of
                \* the last review and the card it was applied to
    order,      \* OrderSpec: the array passed to getOptimalStudyOrder and,
                \* once it has been called, the array it returned
    held,       \* AliasSpec: the objects a caller has kept from earlier
                \* calls, as the caller sees them now
    callers,    \* ConcurrentSpec: per caller, the review it submits and
                \* whether its submitReview call has run
    call        \* StatsSpec: <<>> before calculateStats has been called,
                \* then what it returned; LegacySpec: the arguments of
                \* scheduleNextReview and, once called, what it returned

vars == <<cards, sessions, now, thrown, nSubmits, streak, last, order, held, callers, call>>

----------------------------------------------------------------------------
(* Bounds of the model *)

MaxTime == 1
TicksPerDay == 1
MaxInterval == 100
MaxReviews == 8
MaxDeepReviews == 75
MaxSubmits == 1
MaxCards == 3
MaxDays == 2
MaxLegacyDays == 30
MaxLegacyQuality == 50

CardIds == {"c1", "c2"}
EngineCard == "c1"
QualityRating == 0..5
ReviewQualities == {2, 3}
ResponseTimes == {5000}

----------------------------------------------------------------------------
(* Values *)

\* no array has been passed to getOptimalStudyOrder
NoOrder == [ input |-> <<>>, output |-> <<>> ]

Null == <<>>
Some(t) == <<t>>

\* the caller has kept nothing; card, session and state are the objects
\* kept, and the Live fields tell which of them are still the objects the
\* scheduler's maps hold
NoHeld ==
    [ card    |-> Null, cardLive    |-> FALSE,
      session |-> Null, sessionLive |-> FALSE,
      state   |-> Null, stateLive   |-> {} ]

Max(a, b) == IF a >= b THEN a ELSE b
Min(a, b) == IF a <= b THEN a ELSE b

\* faulty variant of Round: truncates like Math.floor
Round_Floor(n) == n \div 1000

\* Math.round on a non-negative quotient n / 1000: halves round up
\* (the product is taken in exact decimal arithmetic, without the last-bit
\* error of a double)
Round(n) == (n + 500) \div 1000

\* faulty variant of ToFixed2: toFixed(1)
ToFixed2_OneDecimal(x) == ((x + 50) \div 100) * 100

\* Number(x.toFixed(2)) on thousandths: nearest hundredth
ToFixed2(x) == ((x + 5) \div 10) * 10

\* faulty variant of EaseDelta: the quadratic term is forgotten
EaseDelta_Linear(quality) == 100 - (5 - quality) * 80

\* faulty variant of EaseDelta: the distance is taken from 4
EaseDelta_OffByOne(quality) == 100 - (4 - quality) * (80 + (4 - quality) * 20)

\* 0.1 - (5 - quality) * (0.08 + (5 - quality) * 0.02), in thousandths
EaseDelta(quality) == 100 - (5 - quality) * (80 + (5 - quality) * 20)

\* faulty variant of AddDays: setDate is forgotten
AddDays_Forgotten(t, days) == t

\* nextReview.setDate(nextReview.getDate() + days)
AddDays(t, days) == t + days * TicksPerDay

----------------------------------------------------------------------------
(* SM2Algorithm *)

\* faulty variant of CreateNewCard: the first review is due a day later
CreateNewCard_DueTomorrow(id, t) ==
    [ id           |-> id,
      easeFactor   |-> 2500,
      interval     |-> 1,
      repetition   |-> 0,
      lastReviewed |-> Null,
      nextReview   |-> AddDays(t, 1),
      totalReviews |-> 0 ]

CreateNewCard(id, t) ==
    [ id           |-> id,
      easeFactor   |-> 2500,
      interval     |-> 1,
      repetition   |-> 0,
      lastReviewed |-> Null,
      nextReview   |-> t,
      totalReviews |-> 0 ]

\* faulty variant of SuccessInterval: every success after the first gets 6
SuccessInterval_AlwaysSix(card) ==
    IF card.repetition = 0 THEN 1 ELSE 6

\* faulty variant of SuccessInterval: the second success gets no fixed 6
SuccessInterval_NoSix(card) ==
    IF card.repetition = 0 THEN 1
    ELSE Round(card.interval * card.easeFactor)

\* the interval chosen on the success branch
SuccessInterval(card) ==
    IF card.repetition = 0 THEN 1
    ELSE IF card.repetition = 1 THEN 6
    ELSE Round(card.interval * card.easeFactor)

\* faulty variant of RawEase: a failed review costs no ease
RawEase_NoPenalty(card, quality) ==
    IF quality >= 3
    THEN card.easeFactor + EaseDelta(quality)
    ELSE Max(1300, card.easeFactor)

\* the ease factor before the final clamp
RawEase(card, quality) ==
    IF quality >= 3
    THEN card.easeFactor + EaseDelta(quality)
    ELSE Max(1300, card.easeFactor - 200)

\* faulty variant of ClampEase: the upper limit is forgotten
ClampEase_NoCeiling(e) == Max(1300, e)

\* Math.max(1.3, Math.min(5.0, newEaseFactor))
ClampEase(e) == Max(1300, Min(5000, e))

\* faulty variant of CalculateNext: a failed review leaves the repetition count
CalculateNext_KeepRepetition(card, quality, t) ==
    LET newInterval   == Max(1, IF quality >= 3 THEN SuccessInterval(card) ELSE 1)
        newRepetition == IF quality >= 3 THEN card.repetition + 1 ELSE card.repetition
        newEaseFactor == ClampEase(RawEase(card, quality))
    IN  [ easeFactor   |-> ToFixed2(newEaseFactor),
          interval     |-> newInterval,
          repetition   |-> newRepetition,
          lastReviewed |-> Some(t),
          nextReview   |-> AddDays(t, newInterval),
          totalReviews |-> card.totalReviews + 1 ]

\* faulty variant of CalculateNext: the failure branch leaves the interval
CalculateNext_KeepInterval(card, quality, t) ==
    LET newInterval   == Max(1, IF quality >= 3 THEN SuccessInterval(card) ELSE card.interval)
        newRepetition == IF quality >= 3 THEN card.repetition + 1 ELSE 0
        newEaseFactor == ClampEase(RawEase(card, quality))
    IN  [ easeFactor   |-> ToFixed2(newEaseFactor),
          interval     |-> newInterval,
          repetition   |-> newRepetition,
          lastReviewed |-> Some(t),
          nextReview   |-> AddDays(t, newInterval),
          totalReviews |-> card.totalReviews + 1 ]

\* calculateNext: the Partial<SRSCard> it returns, at clock value t
CalculateNext(card, quality, t) ==
    LET newInterval   == Max(1, IF quality >= 3 THEN SuccessInterval(card) ELSE 1)
        newRepetition == IF quality >= 3 THEN card.repetition + 1 ELSE 0
        newEaseFactor == ClampEase(RawEase(card, quality))
    IN  [ easeFactor   |-> ToFixed2(newEaseFactor),
          interval     |-> newInterval,
          repetition   |-> newRepetition,
          lastReviewed |-> Some(t),
          nextReview   |-> AddDays(t, newInterval),
          totalReviews |-> card.totalReviews + 1 ]

\* faulty variant of Merge: { ...updates }, the card is not spread
Merge_NoCard(card, updates) ==
    [ id           |-> "undefined",
      easeFactor   |-> updates.easeFactor,
      interval     |-> updates.interval,
      repetition   |-> updates.repetition,
      lastReviewed |-> updates.lastReviewed,
      nextReview   |-> updates.nextReview,
      totalReviews |-> updates.totalReviews ]

\* faulty variant of Merge: { ...updates, ...card }, the card's fields win
Merge_CardWins(card, updates) == card

\* { ...card, ...updates }
Merge(card, updates) ==
    [ id           |-> card.id,
      easeFactor   |-> updates.easeFactor,
      interval     |-> updates.interval,
      repetition   |-> updates.repetition,
      lastReviewed |-> updates.lastReviewed,
      nextReview   |-> updates.nextReview,
      totalReviews |-> updates.totalReviews ]

\* faulty variant of IsDue: a card due exactly now is not yet due
IsDue_Strict(card, t) == card.nextReview < t

\* isDue, with t the value of new Date()
IsDue(card, t) == card.nextReview <= t

----------------------------------------------------------------------------
(* StudyScheduler *)

\* `session_${Date.now()}`
SessionId(t) == <<"session", t>>

SessionIds == { SessionId(t) : t \in 0..MaxTime }

ReviewResults ==
    [ flashcardId  : CardIds,
      quality      : ReviewQualities,
      correct      : BOOLEAN,
      responseTime : ResponseTimes,
      reviewedAt   : {now} ]

\* Map.set(key, value)
MapSet(m, k, v) == [ x \in DOMAIN m \cup {k} |-> IF x = k THEN v ELSE m[x] ]

\* what a caller holds once the maps hold new objects (Map.set) or nothing
\* (Map.clear) under cardIds and sessionIds: the objects kept are unchanged,
\* but no longer the scheduler's
Replaced(h, cardIds, sessionIds) ==
    [ h EXCEPT
        !.cardLive    = @ /\ h.card[1].id \notin cardIds,
        !.sessionLive = @ /\ h.session[1].id \notin sessionIds,
        !.stateLive   = @ \ sessionIds ]

\* what a caller holds once fields of the session object the map holds under
\* sid were assigned, leaving it as session: every reference to that object
\* sees the assignment
Written(h, sid, session) ==
    [ h EXCEPT
        !.session = IF h.sessionLive /\ h.session[1].id = sid THEN <<session>> ELSE @,
        !.state   = IF sid \in h.stateLive
                    THEN <<[ h.state[1] EXCEPT !.sessions[sid] = session ]>>
                    ELSE @ ]

AddCard(id) ==
    /\ cards' = MapSet(cards, id, CreateNewCard(id, now))
    /\ held' = Replaced(held, {id}, {})
    /\ thrown' = "none"
    /\ UNCHANGED <<sessions, now, nSubmits, streak, last, order, callers, call>>

\* getCard(id), the caller keeping the card returned
GetCard(id) ==
    /\ id \in DOMAIN cards
    /\ held.card = Null
    /\ held' = [ held EXCEPT !.card = <<cards[id]>>, !.cardLive = TRUE ]
    /\ thrown' = "none"
    /\ UNCHANGED <<cards, sessions, now, nSubmits, streak, last, order, callers, call>>

\* getAllCards: the cards held (their order in the Map is not modelled)
GetAllCards == { cards[id] : id \in DOMAIN cards }

\* getDueCards: SM2Algorithm.getDueCards(this.getAllCards())
GetDueCards == { c \in GetAllCards : IsDue(c, now) }

NewSession(t) ==
    [ id            |-> SessionId(t),
      startTime     |-> t,
      endTime       |-> Null,
      cardsReviewed |-> 0,
      cardsCorrect  |-> 0,
      totalTime     |-> 0,
      results       |-> <<>> ]

StartStudySession ==
    /\ sessions' = MapSet(sessions, SessionId(now), NewSession(now))
    /\ held' = Replaced(held, {}, {SessionId(now)})
    /\ thrown' = "none"
    /\ UNCHANGED <<cards, now, nSubmits, streak, last, order, callers, call>>

\* startStudySession, the caller keeping the session returned
StartStudySessionKept ==
    /\ held.session = Null
    /\ sessions' = MapSet(sessions, SessionId(now), NewSession(now))
    /\ held' = [ Replaced(held, {}, {SessionId(now)}) EXCEPT
                    !.session = <<NewSession(now)>>, !.sessionLive = TRUE ]
    /\ thrown' = "none"
    /\ UNCHANGED <<cards, now, nSubmits, streak, last, order, callers, call>>

\* faulty variant of Recorded: results.unshift(result)
Recorded_Prepend(session, result) ==
    [ session EXCEPT
        !.results       = <<result>> \o @,
        !.cardsReviewed = @ + 1,
        !.cardsCorrect  = IF result.correct THEN @ + 1 ELSE @ ]

\* faulty variant of Recorded: cardsCorrect++ for every review
Recorded_AlwaysCorrect(session, result) ==
    [ session EXCEPT
        !.results       = Append(@, result),
        !.cardsReviewed = @ + 1,
        !.cardsCorrect  = @ + 1 ]

\* the session after results.push(result), cardsReviewed++, cardsCorrect++
Recorded(session, result) ==
    [ session EXCEPT
        !.results       = Append(@, result),
        !.cardsReviewed = @ + 1,
        !.cardsCorrect  = IF result.correct THEN @ + 1 ELSE @ ]

\* faulty variant of HeldAfterSubmit: the updates are assigned to the card
\* object itself, Object.assign(card, updates), before it is stored
HeldAfterSubmit_CardInPlace(sessionId, result) ==
    LET card == cards[result.flashcardId]
        h    == Written(held, sessionId, Recorded(sessions[sessionId], result))
    IN  [ h EXCEPT
            !.card = IF h.cardLive /\ h.card[1].id = card.id
                     THEN <<Merge(card, CalculateNext(card, result.quality, now))>>
                     ELSE @ ]

\* what a caller holds after a submitReview that returned: the session object
\* was written in place, the card entry is a new object
HeldAfterSubmit(sessionId, result) ==
    Replaced(Written(held, sessionId, Recorded(sessions[sessionId], result)),
             {result.flashcardId}, {})

\* faulty variant of SubmitReview: the card is looked up and replaced before
\* the session is looked up
SubmitReview_CardFirst(sessionId, result) ==
    IF result.flashcardId \notin DOMAIN cards
    THEN /\ thrown' = "CardNotFound"
         /\ UNCHANGED <<cards, sessions, now, nSubmits, streak, last, order, held, callers, call>>
    ELSE IF sessionId \notin DOMAIN sessions
    THEN /\ LET card    == cards[result.flashcardId]
                updates == CalculateNext(card, result.quality, now)
            IN  cards' = MapSet(cards, card.id, Merge(card, updates))
         /\ held' = Replaced(held, {result.flashcardId}, {})
         /\ thrown' = "SessionNotFound"
         /\ UNCHANGED <<sessions, now, nSubmits, streak, last, order, callers, call>>
    ELSE /\ nSubmits < MaxSubmits
         /\ LET card    == cards[result.flashcardId]
                updates == CalculateNext(card, result.quality, now)
            IN  cards' = MapSet(cards, card.id, Merge(card, updates))
         /\ sessions' = [ sessions EXCEPT ![sessionId] = Recorded(@, result) ]
         /\ held' = HeldAfterSubmit(sessionId, result)
         /\ nSubmits' = nSubmits + 1
         /\ thrown' = "none"
         /\ UNCHANGED <<now, streak, last, order, callers, call>>

\* faulty variant of SubmitReview: the result is recorded in the session
\* before the card is looked up
SubmitReview_RecordFirst(sessionId, result) ==
    IF sessionId \notin DOMAIN sessions
    THEN /\ thrown' = "SessionNotFound"
         /\ UNCHANGED <<cards, sessions, now, nSubmits, streak, last, order, held, callers, call>>
    ELSE IF result.flashcardId \notin DOMAIN cards
    THEN /\ sessions' = [ sessions EXCEPT ![sessionId] = Recorded(@, result) ]
         /\ held' = Written(held, sessionId, Recorded(sessions[sessionId], result))
         /\ thrown' = "CardNotFound"
         /\ UNCHANGED <<cards, now, nSubmits, streak, last, order, callers, call>>
    ELSE /\ nSubmits < MaxSubmits
         /\ LET card    == cards[result.flashcardId]
                updates == CalculateNext(card, result.quality, now)
            IN  cards' = MapSet(cards, card.id, Merge(card, updates))
         /\ sessions' = [ sessions EXCEPT ![sessionId] = Recorded(@, result) ]
         /\ held' = HeldAfterSubmit(sessionId, result)
         /\ nSubmits' = nSubmits + 1
         /\ thrown' = "none"
         /\ UNCHANGED <<now, streak, last, order, callers, call>>

\* submitReview
Submit(sessionId, result) ==
    IF sessionId \notin DOMAIN sessions
    THEN /\ thrown' = "SessionNotFound"
         /\ UNCHANGED <<cards, sessions, now, nSubmits, streak, last, order, held, call>>
    ELSE IF result.flashcardId \notin DOMAIN cards
    THEN /\ thrown' = "CardNotFound"
         /\ UNCHANGED <<cards, sessions, now, nSubmits, streak, last, order, held, call>>
    ELSE /\ LET card    == cards[result.flashcardId]
                updates == CalculateNext(card, result.quality, now)
            IN  cards' = MapSet(cards, card.id, Merge(card, updates))
         /\ sessions' = [ sessions EXCEPT ![sessionId] = Recorded(@, result) ]
         /\ held' = HeldAfterSubmit(sessionId, result)
         /\ nSubmits' = nSubmits + 1
         /\ thrown' = "none"
         /\ UNCHANGED <<now, streak, last, order, call>>

\* submitReview by the one caller of Spec, as long as fewer than MaxSubmits
\* reviews have been recorded
SubmitReview(sessionId, result) ==
    /\ (sessionId \in DOMAIN sessions /\ result.flashcardId \in DOMAIN cards)
          => nSubmits < MaxSubmits
    /\ Submit(sessionId, result)
    /\ UNCHANGED callers

\* faulty variant of Ended: totalTime is not computed
Ended_NoTotal(session, t) == [ session EXCEPT !.endTime = Some(t) ]

\* the session after endTime = new Date(), totalTime = endTime - startTime
Ended(session, t) ==
    [ session EXCEPT !.endTime = Some(t), !.totalTime = t - session.startTime ]

EndStudySession(sessionId) ==
    IF sessionId \notin DOMAIN sessions
    THEN /\ thrown' = "SessionNotFound"
         /\ UNCHANGED <<cards, sessions, now, nSubmits, streak, last, order, held, callers, call>>
    ELSE /\ sessions' = [ sessions EXCEPT ![sessionId] = Ended(@, now) ]
         /\ held' = Written(held, sessionId, Ended(sessions[sessionId], now))
         /\ thrown' = "none"
         /\ UNCHANGED <<cards, now, nSubmits, streak, last, order, callers, call>>

EmptyMap == [ x \in {} |-> x ]

\* faulty variant of Reset: sessions.clear() is forgotten
Reset_CardsOnly ==
    /\ cards' = EmptyMap
    /\ held' = Replaced(held, DOMAIN cards, {})
    /\ thrown' = "none"
    /\ UNCHANGED <<sessions, now, nSubmits, streak, last, order, callers, call>>

Reset ==
    /\ cards' = EmptyMap
    /\ sessions' = EmptyMap
    /\ held' = Replaced(held, DOMAIN cards, DOMAIN sessions)
    /\ thrown' = "none"
    /\ UNCHANGED <<now, nSubmits, streak, last, order, callers, call>>

----------------------------------------------------------------------------
(* Statistics *)

\* the sum of the values of a map with integer values
RECURSIVE SumMap(_)
SumMap(f) ==
    IF DOMAIN f = {} THEN 0
    ELSE LET k == CHOOSE x \in DOMAIN f : TRUE
         IN  f[k] + SumMap([ x \in DOMAIN f \ {k} |-> f[x] ])

\* a quotient of two numbers, kept exact
Ratio(n, d) == [ num |-> n, den |-> d ]
Zero == Ratio(0, 1)

\* new Date(y, m, d) of a Date: the day it falls on
DayOf(t) == t \div TicksPerDay

\* Number((sum / n).toFixed(2)) on thousandths: nearest hundredth
AverageEase(sum, n) == ((2 * sum + 10 * n) \div (20 * n)) * 10

\* faulty variant of CalculateStats: the bucket tests are not chained with
\* else, so a card is counted by every test it passes
CalculateStats_NoElse(cardMap, t) ==
    LET ids == DOMAIN cardMap
    IN  [ totalCards        |-> Cardinality(ids),
          dueToday          |-> Cardinality({ id \in ids :
                                    DayOf(cardMap[id].nextReview) <= DayOf(t) }),
          averageEaseFactor |-> IF ids = {} THEN 2500
                                ELSE AverageEase(
                                        SumMap([ id \in ids |-> cardMap[id].easeFactor ]),
                                        Cardinality(ids)),
          intervalDistribution |->
              [ day1        |-> Cardinality({ id \in ids : cardMap[id].interval = 1 }),
                days2to6    |-> Cardinality({ id \in ids : cardMap[id].interval <= 6 }),
                weeks1to4   |-> Cardinality({ id \in ids : cardMap[id].interval <= 28 }),
                months1plus |-> Cardinality({ id \in ids : cardMap[id].interval > 28 }) ] ]

\* calculateStats on the cards of a card map, with t the value of new Date()
CalculateStats(cardMap, t) ==
    LET ids == DOMAIN cardMap
    IN  [ totalCards        |-> Cardinality(ids),
          dueToday          |-> Cardinality({ id \in ids :
                                    DayOf(cardMap[id].nextReview) <= DayOf(t) }),
          averageEaseFactor |-> IF ids = {} THEN 2500
                                ELSE AverageEase(
                                        SumMap([ id \in ids |-> cardMap[id].easeFactor ]),
                                        Cardinality(ids)),
          intervalDistribution |->
              [ day1        |-> Cardinality({ id \in ids : cardMap[id].interval = 1 }),
                days2to6    |-> Cardinality({ id \in ids :
                                    cardMap[id].interval # 1 /\ cardMap[id].interval <= 6 }),
                weeks1to4   |-> Cardinality({ id \in ids :
                                    cardMap[id].interval # 1 /\ cardMap[id].interval > 6
                                        /\ cardMap[id].interval <= 28 }),
                months1plus |-> Cardinality({ id \in ids :
                                    cardMap[id].interval # 1 /\ cardMap[id].interval > 28 }) ] ]

\* the statistics over the sessions counted
StatsOver(cardMap, sessionMap, counted, t) ==
    LET basicStats     == CalculateStats(cardMap, t)
        totalStudyTime == SumMap([ sid \in counted |-> sessionMap[sid].totalTime ])
        totalReviews   == SumMap([ sid \in counted |-> sessionMap[sid].cardsReviewed ])
        totalCorrect   == SumMap([ sid \in counted |-> sessionMap[sid].cardsCorrect ])
    IN  [ totalCards           |-> basicStats.totalCards,
          dueToday             |-> basicStats.dueToday,
          averageEaseFactor    |-> basicStats.averageEaseFactor,
          intervalDistribution |-> basicStats.intervalDistribution,
          totalStudyTime       |-> totalStudyTime,
          totalReviews         |-> totalReviews,
          accuracy             |-> IF totalReviews > 0
                                   THEN Ratio(totalCorrect * 100, totalReviews)
                                   ELSE Zero,
          sessionsCompleted    |-> Cardinality(counted),
          averageSessionLength |-> IF Cardinality(counted) > 0
                                   THEN Ratio(totalStudyTime, Cardinality(counted))
                                   ELSE Zero ]

\* faulty variant of GetStats: the filter on endTime is forgotten
GetStats_AllSessions(cardMap, sessionMap, t) ==
    StatsOver(cardMap, sessionMap, DOMAIN sessionMap, t)

\* getStats of a scheduler holding cardMap and sessionMap
GetStats(cardMap, sessionMap, t) ==
    StatsOver(cardMap, sessionMap,
              { sid \in DOMAIN sessionMap : sessionMap[sid].endTime # Null }, t)

\* the record getUpcomingReviews starts from: one key per day, each at 0
\* (faulty variant: the first day is tomorrow)
InitDays_FromTomorrow(t, days) ==
    [ d \in { DayOf(AddDays(t, i)) : i \in 1..days } |-> 0 ]

\* the record getUpcomingReviews starts from: the date key of now + i days
\* for i = 0 .. days - 1, each at 0
InitDays(t, days) ==
    [ d \in { DayOf(AddDays(t, i)) : i \in 0..(days - 1) } |-> 0 ]

\* the forEach of getUpcomingReviews over the cards not yet visited
RECURSIVE CountReviews(_, _, _)
CountReviews(upcoming, cardMap, ids) ==
    IF ids = {} THEN upcoming
    ELSE LET id         == CHOOSE x \in ids : TRUE
             reviewDate == DayOf(cardMap[id].nextReview)
         IN  CountReviews(
                 IF reviewDate \in DOMAIN upcoming
                 THEN [ upcoming EXCEPT ![reviewDate] = @ + 1 ]
                 ELSE upcoming,
                 cardMap, ids \ {id})

\* getUpcomingReviews(days) of a scheduler holding cardMap, at clock value t
GetUpcomingReviews(cardMap, t, days) ==
    CountReviews(InitDays(t, days), cardMap, DOMAIN cardMap)

----------------------------------------------------------------------------
(* Persistence *)

\* exportState of a scheduler holding cardMap and sessionMap
ExportState(cardMap, sessionMap) == [ cards |-> cardMap, sessions |-> sessionMap ]

\* exportState, the caller keeping the state returned: its two records are
\* new objects, their values are the objects the maps hold
ExportStateKept ==
    /\ held.state = Null
    /\ held' = [ held EXCEPT !.state = <<ExportState(cards, sessions)>>,
                              !.stateLive = DOMAIN sessions ]
    /\ thrown' = "none"
    /\ UNCHANGED <<cards, sessions, now, nSubmits, streak, last, order, callers, call>>

\* new Date(d): a Date with the time value of d
NewDate(d) == d

\* the card importState stores for an exported card
ImportCard(card) ==
    [ card EXCEPT
        !.lastReviewed = IF card.lastReviewed # Null
                         THEN Some(NewDate(card.lastReviewed[1])) ELSE Null,
        !.nextReview   = NewDate(card.nextReview) ]

\* faulty variant of ImportSession: endTime is not restored
ImportSession_NoEndTime(session) ==
    [ session EXCEPT
        !.startTime = NewDate(session.startTime),
        !.endTime   = Null,
        !.results   = [ i \in 1..Len(session.results) |->
                          [ session.results[i] EXCEPT !.reviewedAt = NewDate(@) ] ] ]

\* the session importState stores for an exported session
ImportSession(session) ==
    [ session EXCEPT
        !.startTime = NewDate(session.startTime),
        !.endTime   = IF session.endTime # Null
                      THEN Some(NewDate(session.endTime[1])) ELSE Null,
        !.results   = [ i \in 1..Len(session.results) |->
                          [ session.results[i] EXCEPT !.reviewedAt = NewDate(@) ] ] ]

\* the maps of a scheduler holding cardMap and sessionMap after
\* importState(state): every entry of state is set, nothing is cleared
Imported(cardMap, sessionMap, state) ==
    [ cards    |-> [ id \in DOMAIN cardMap \cup DOMAIN state.cards |->
                       IF id \in DOMAIN state.cards
                       THEN ImportCard(state.cards[id]) ELSE cardMap[id] ],
      sessions |-> [ sid \in DOMAIN sessionMap \cup DOMAIN state.sessions |->
                       IF sid \in DOMAIN state.sessions
                       THEN ImportSession(state.sessions[sid]) ELSE sessionMap[sid] ] ]

\* the states handed to importState: the empty state and the state exported
\* by a scheduler that holds one new card
ImportStates ==
    { ExportState(EmptyMap, EmptyMap),
      ExportState(MapSet(EmptyMap, "c1", CreateNewCard("c1", 0)), EmptyMap) }

ImportState(state) ==
    /\ cards' = Imported(cards, sessions, state).cards
    /\ sessions' = Imported(cards, sessions, state).sessions
    /\ held' = Replaced(held, DOMAIN state.cards, DOMAIN state.sessions)
    /\ thrown' = "none"
    /\ UNCHANGED <<now, nSubmits, streak, last, order, callers, call>>

\* the clock moves on between calls
Tick ==
    /\ now < MaxTime
    /\ now' = now + 1
    /\ UNCHANGED <<cards, sessions, thrown, nSubmits, streak, last, order, held, callers, call>>

Init ==
    /\ cards = EmptyMap
    /\ sessions = EmptyMap
    /\ now = 0
    /\ thrown = "none"
    /\ nSubmits = 0
    /\ streak = {}
    /\ last = <<>>
    /\ order = NoOrder
    /\ held = NoHeld
    /\ callers = <<>>
    /\ call = <<>>

Next ==
    \/ \E id \in CardIds : AddCard(id)
    \/ StartStudySession
    \/ \E sid \in SessionIds : \E r \in ReviewResults : SubmitReview(sid, r)
    \/ \E sid \in SessionIds : EndStudySession(sid)
    \/ Reset
    \/ Tick

Spec == Init /\ [][Next]_vars

\* addCard with an id the scheduler does not hold yet
AddNewCard(id) ==
    /\ id \notin DOMAIN cards
    /\ AddCard(id)

\* the scheduler without reset, cards added under pairwise distinct ids
ConserveNext ==
    \/ \E id \in CardIds : AddNewCard(id)
    \/ StartStudySession
    \/ \E sid \in SessionIds : \E r \in ReviewResults : SubmitReview(sid, r)
    \/ \E sid \in SessionIds : EndStudySession(sid)
    \/ Tick

ConserveSpec == Init /\ [][ConserveNext]_vars

\* the scheduler with importState among its operations
PersistNext ==
    \/ Next
    \/ \E state \in ImportStates : ImportState(state)

PersistSpec == Init /\ [][PersistNext]_vars

\* the scheduler with a caller that keeps what getCard, startStudySession and
\* exportState return; the clock stands still
\* the reviews submitted beside the caller: correct exactly when recalled
AliasResults == { r \in ReviewResults : r.correct = (r.quality >= 3) }

AliasNext ==
    \/ \E id \in CardIds : AddCard(id)
    \/ \E id \in CardIds : GetCard(id)
    \/ StartStudySession
    \/ StartStudySessionKept
    \/ \E sid \in SessionIds : \E r \in AliasResults : SubmitReview(sid, r)
    \/ \E sid \in SessionIds : EndStudySession(sid)
    \/ ExportStateKept

AliasSpec == Init /\ [][AliasNext]_vars

----------------------------------------------------------------------------
(* Two callers of one scheduler, each with one review of the same card to  *)
(* submit; a call runs to completion before the next one starts            *)

Callers == {1, 2}

\* the reviews a caller may submit: any quality, marked correct or not
CallerResults ==
    [ flashcardId  : {EngineCard},
      quality      : QualityRating,
      correct      : BOOLEAN,
      responseTime : ResponseTimes,
      reviewedAt   : {0} ]

\* the submitReview call of caller p
CallerSubmit(p) ==
    /\ ~callers[p].done
    /\ Submit(SessionId(0), callers[p].result)
    /\ callers' = [ callers EXCEPT ![p].done = TRUE ]

\* the card has been added and a session started
ConcurrentInit ==
    /\ cards = MapSet(EmptyMap, EngineCard, CreateNewCard(EngineCard, 0))
    /\ sessions = MapSet(EmptyMap, SessionId(0), NewSession(0))
    /\ now = 0
    /\ thrown = "none"
    /\ nSubmits = 0
    /\ streak = {}
    /\ last = <<>>
    /\ order = NoOrder
    /\ held = NoHeld
    /\ callers \in [ Callers -> [ result : CallerResults, done : {FALSE} ] ]
    /\ call = <<>>

ConcurrentNext ==
    \/ \E p \in Callers : CallerSubmit(p)
    \/ Tick

ConcurrentSpec == ConcurrentInit /\ [][ConcurrentNext]_vars

----------------------------------------------------------------------------
(* calculateStats applied to a collection of cards *)

StatsIds == {"c1", "c2", "c3"}

\* the intervals at the limits of the four buckets
StatsIntervals == {1, 2, 6, 7, 28, 29}

\* a new card whose interval has grown to interval
StatsCard(id, interval) == [ CreateNewCard(id, 0) EXCEPT !.interval = interval ]

\* the collections of at most three cards with those intervals
StatsInputs ==
    { [ id \in ids |-> StatsCard(id, intervals[id]) ] :
        ids \in SUBSET StatsIds, intervals \in [ StatsIds -> StatsIntervals ] }

\* const stats = SM2Algorithm.calculateStats(cards)
CalculateStatsCall ==
    /\ call = <<>>
    /\ call' = <<CalculateStats(cards, now)>>
    /\ UNCHANGED <<cards, sessions, now, thrown, nSubmits, streak, last, order, held, callers>>

StatsInit ==
    /\ cards \in StatsInputs
    /\ sessions = EmptyMap
    /\ now = 0
    /\ thrown = "none"
    /\ nSubmits = 0
    /\ streak = {}
    /\ last = <<>>
    /\ order = NoOrder
    /\ held = NoHeld
    /\ callers = <<>>
    /\ call = <<>>

StatsNext == CalculateStatsCall

StatsSpec == StatsInit /\ [][StatsNext]_vars

----------------------------------------------------------------------------
(* The legacy scheduleNextReview of srs.ts; days and qualities are integers *)
(* in tenths (1 day is 10, quality 0.3 is 3), results in hundredths of a day *)

\* faulty variant of ScheduleNextReview: the factor falls as quality rises
ScheduleNextReview_Inverted(daysSinceLast, quality) ==
    LET factor == Max(11, 13 - quality)
    IN  Max(100, daysSinceLast * factor)

\* scheduleNextReview(daysSinceLast, quality)
ScheduleNextReview(daysSinceLast, quality) ==
    LET factor == Max(11, 13 + quality)
    IN  Max(100, daysSinceLast * factor)

LegacyDays == (-MaxLegacyDays)..MaxLegacyDays
LegacyQualities == (-MaxLegacyQuality)..MaxLegacyQuality

\* const result = scheduleNextReview(days, quality)
ScheduleCall ==
    /\ call.result = <<>>
    /\ call' = [ call EXCEPT !.result = <<ScheduleNextReview(call.days, call.quality)>> ]
    /\ UNCHANGED <<cards, sessions, now, thrown, nSubmits, streak, last, order, held, callers>>

LegacyInit ==
    /\ cards = EmptyMap
    /\ sessions = EmptyMap
    /\ now = 0
    /\ thrown = "none"
    /\ nSubmits = 0
    /\ streak = {}
    /\ last = <<>>
    /\ order = NoOrder
    /\ held = NoHeld
    /\ callers = <<>>
    /\ call \in [ days : LegacyDays, quality : LegacyQualities, result : {<<>>} ]

LegacyNext == ScheduleCall

LegacySpec == LegacyInit /\ [][LegacyNext]_vars

----------------------------------------------------------------------------
(* The engine alone: one default card, reviewed over and over, each result *)
(* merged back as { ...currentCard, ...result }                            *)

NextStreak(s, q) == IF s = {} \/ s = {q} THEN {q} ELSE QualityRating

\* currentCard = { ...currentCard, ...calculateNext(currentCard, q) }
ApplyReview(q) ==
    LET card    == cards[EngineCard]
        updates == CalculateNext(card, q, now)
    IN  /\ updates.interval <= MaxInterval
        /\ cards' = MapSet(cards, EngineCard, Merge(card, updates))
        /\ streak' = NextStreak(streak, q)
        /\ UNCHANGED <<sessions, now, thrown, nSubmits>>

\* a review whose quality and input card are remembered in last
EngineReview(q) ==
    /\ cards[EngineCard].totalReviews < MaxReviews
    /\ ApplyReview(q)
    /\ last' = [ quality |-> q, before |-> cards[EngineCard] ]
    /\ UNCHANGED <<order, held, callers, call>>

\* a review in a long run, nothing remembered
DeepReview(q) ==
    /\ cards[EngineCard].totalReviews < MaxDeepReviews
    /\ ApplyReview(q)
    /\ UNCHANGED <<last, order, held, callers, call>>

EngineInit ==
    /\ cards = MapSet(EmptyMap, EngineCard, CreateNewCard(EngineCard, 0))
    /\ sessions = EmptyMap
    /\ now = 0
    /\ thrown = "none"
    /\ nSubmits = 0
    /\ streak = {}
    /\ last = <<>>
    /\ order = NoOrder
    /\ held = NoHeld
    /\ callers = <<>>
    /\ call = <<>>

EngineNext == \E q \in QualityRating : EngineReview(q)

EngineSpec == EngineInit /\ [][EngineNext]_vars

DeepNext == \E q \in QualityRating : DeepReview(q)

DeepSpec == EngineInit /\ [][DeepNext]_vars

----------------------------------------------------------------------------
(* getOptimalStudyOrder applied to an array of cards *)

\* faulty variant of Compare: the tie on overdue-ness goes to the easier card
Compare_EasierFirst(a, b, t) ==
    LET aOverdue == t - a.nextReview
        bOverdue == t - b.nextReview
    IN  IF aOverdue # bOverdue THEN bOverdue - aOverdue
        ELSE b.easeFactor - a.easeFactor

\* the comparator passed to sort: negative when a goes before b
Compare(a, b, t) ==
    LET aOverdue == t - a.nextReview
        bOverdue == t - b.nextReview
    IN  IF aOverdue # bOverdue THEN bOverdue - aOverdue
        ELSE a.easeFactor - b.easeFactor

\* Array.prototype.filter with isDue
RECURSIVE FilterDue(_, _)
FilterDue(cs, t) ==
    IF cs = <<>> THEN <<>>
    ELSE IF IsDue(Head(cs), t) THEN <<Head(cs)>> \o FilterDue(Tail(cs), t)
    ELSE FilterDue(Tail(cs), t)

\* x put into the sorted array s behind every element it does not precede
RECURSIVE Insert(_, _, _)
Insert(x, s, t) ==
    IF s = <<>> THEN <<x>>
    ELSE IF Compare(x, Head(s), t) < 0 THEN <<x>> \o s
    ELSE <<Head(s)>> \o Insert(x, Tail(s), t)

\* Array.prototype.sort with Compare: a stable sort
RECURSIVE Sort(_, _)
Sort(cs, t) ==
    IF cs = <<>> THEN <<>>
    ELSE Insert(cs[Len(cs)], Sort(SubSeq(cs, 1, Len(cs) - 1), t), t)

\* faulty variant of GetOptimalStudyOrder: the filter is forgotten
GetOptimalStudyOrder_NoFilter(cs, t) == Sort(cs, t)

\* getOptimalStudyOrder, with t the value of new Date()
GetOptimalStudyOrder(cs, t) == Sort(FilterDue(cs, t), t)

\* Array.from(map.values()): the cards of a card map as an array (in some
\* order of the ids; the insertion order of the Map is not modelled)
RECURSIVE ArrayOf(_)
ArrayOf(cardMap) ==
    IF DOMAIN cardMap = {} THEN <<>>
    ELSE LET id == CHOOSE x \in DOMAIN cardMap : TRUE
         IN  <<cardMap[id]>> \o ArrayOf([ x \in DOMAIN cardMap \ {id} |-> cardMap[x] ])

\* getStudyQueue: SM2Algorithm.getOptimalStudyOrder(this.getAllCards())
GetStudyQueue == GetOptimalStudyOrder(ArrayOf(cards), now)

\* the instants a card of the array may be due at
OrderTimes == 0..(MaxTime + 2)

\* a never-failed card (2.5) and a card failed down to the floor (1.3)
OrderEases == {1300, 2500}

\* the i-th card of an array: a default card created at time next, or a card
\* whose sixth failed review in a row was one day before next
OrderCard(i, ease, next) ==
    [ id           |-> "c" \o ToString(i),
      easeFactor   |-> ease,
      interval     |-> 1,
      repetition   |-> 0,
      lastReviewed |-> IF ease = 2500 THEN Null ELSE Some(next - TicksPerDay),
      nextReview   |-> next,
      totalReviews |-> IF ease = 2500 THEN 0 ELSE 6 ]

\* the arrays of up to MaxCards cards with distinct ids
OrderInputs ==
    UNION { { [ i \in 1..n |-> OrderCard(i, f[i][1], f[i][2]) ] :
                f \in [ 1..n -> OrderEases \X OrderTimes ] } : n \in 0..MaxCards }

\* const queue = SM2Algorithm.getOptimalStudyOrder(cards)
StudyOrder ==
    /\ order.output = <<>>
    /\ order' = [ input  |-> order.input,
                  output |-> <<GetOptimalStudyOrder(order.input, now)>> ]
    /\ UNCHANGED <<cards, sessions, now, thrown, nSubmits, streak, last, held, callers, call>>

OrderInit ==
    /\ cards = EmptyMap
    /\ sessions = EmptyMap
    /\ now \in OrderTimes
    /\ thrown = "none"
    /\ nSubmits = 0
    /\ streak = {}
    /\ last = <<>>
    /\ order \in [ input : OrderInputs, output : {<<>>} ]
    /\ held = NoHeld
    /\ callers = <<>>
    /\ call = <<>>

OrderNext == StudyOrder

OrderSpec == OrderInit /\ [][OrderNext]_vars

----------------------------------------------------------------------------
(* Properties of the engine *)

TheCard == cards[EngineCard]

\* C1 (DeepSpec): every card reachable from the default card by reviews of
\* quality 0..5 has 1.3 <= easeFactor <= 5.0 and interval >= 1, and from the
\* sixth review of an all-quality-0 run on the ease factor sits at 1.3.
C1_EaseAndIntervalBounds ==
    \A id \in DOMAIN cards :
        /\ cards[id].easeFactor >= 1300
        /\ cards[id].easeFactor <= 5000
        /\ cards[id].interval >= 1
        /\ (streak = {0} /\ cards[id].totalReviews >= 6) => cards[id].easeFactor = 1300

\* a seventh quality-0 review in a row: the floor has been hit and held
C1_Witness ==
    /\ streak = {0}
    /\ TheCard.totalReviews >= 7
    /\ TheCard.easeFactor = 1300

\* C2 (EngineSpec): a review of quality <= 2 leaves repetition = 0 and
\* interval = 1 whatever the repetition and interval were before it.
C2_ResetOnFailure ==
    (last # <<>> /\ last.quality <= 2) =>
        /\ TheCard.repetition = 0
        /\ TheCard.interval = 1

\* a failure right after a streak of at least three successes
C2_Witness ==
    /\ last # <<>>
    /\ last.quality <= 2
    /\ last.before.repetition >= 3
    /\ last.before.interval > 6
    /\ TheCard.repetition = 0

\* the n-th interval of an all-quality-4 run: 1, 6, then round(previous x 2.5)
RECURSIVE Q4Interval(_)
Q4Interval(n) ==
    IF n <= 1 THEN 1
    ELSE IF n = 2 THEN 6
    ELSE (5 * Q4Interval(n - 1) + 1) \div 2

----------------------------------------------------------------------------
(* Properties of the scheduler *)

Closed(sid) == sid \in DOMAIN sessions /\ sessions[sid].endTime # Null

\* the number of results of a session with quality >= 3
GoodResults(session) ==
    Cardinality({ i \in 1..Len(session.results) : session.results[i].quality >= 3 })

\* C4 (Spec): in every session cardsReviewed counts the reviews submitted and
\* cardsCorrect counts exactly those of quality >= 3, whatever the correct
\* flags of the results say.
C4_CorrectCountsQuality ==
    \A sid \in DOMAIN sessions :
        /\ sessions[sid].cardsReviewed = Len(sessions[sid].results)
        /\ sessions[sid].cardsCorrect = GoodResults(sessions[sid])

\* C5 (Spec): submitReview on a session closed by endStudySession throws
\* and changes neither the sessions nor the cards.
C5_ClosedSessionRejectsReview ==
    [][ \A sid \in SessionIds : \A r \in ReviewResults :
            (Closed(sid) /\ SubmitReview(sid, r)) =>
                /\ thrown' # "none"
                /\ sessions' = sessions
                /\ cards' = cards ]_vars

\* C6 (Spec): endStudySession on a session whose endTime is already set throws
\* and the session keeps the endTime and totalTime of its first close.
C6_ClosedExactlyOnce ==
    [][ \A sid \in SessionIds :
            (Closed(sid) /\ EndStudySession(sid)) =>
                /\ thrown' = "SessionNotFound"
                /\ sessions'[sid].endTime = sessions[sid].endTime
                /\ sessions'[sid].totalTime = sessions[sid].totalTime ]_vars

\* C7 (Spec): submitReview and endStudySession with a session id the
\* scheduler does not hold throw and leave every card and session as it was.
C7_UnknownSessionThrows ==
    [][ \A sid \in SessionIds :
            sid \notin DOMAIN sessions =>
                /\ \A r \in ReviewResults :
                        SubmitReview(sid, r) =>
                            /\ thrown' = "SessionNotFound"
                            /\ cards' = cards
                            /\ sessions' = sessions
                /\ EndStudySession(sid) =>
                        /\ thrown' = "SessionNotFound"
                        /\ cards' = cards
                        /\ sessions' = sessions ]_vars

\* a call has failed on an unknown session id while the scheduler holds a
\* card and another session
C7_Witness ==
    /\ thrown = "SessionNotFound"
    /\ DOMAIN cards # {}
    /\ DOMAIN sessions # {}
    /\ DOMAIN sessions # SessionIds

\* C8 (Spec): submitReview for a session the scheduler holds and a card id it
\* does not hold throws CardNotFound; the session (results, cardsReviewed,
\* cardsCorrect) and all cards are as before the call.
C8_UnknownCardThrows ==
    [][ \A sid \in SessionIds : \A r \in ReviewResults :
            (sid \in DOMAIN sessions /\ r.flashcardId \notin DOMAIN cards
                /\ SubmitReview(sid, r)) =>
                    /\ thrown' = "CardNotFound"
                    /\ sessions' = sessions
                    /\ cards' = cards ]_vars

\* a review of an unknown card has failed in a session that already holds a
\* result
C8_Witness ==
    /\ thrown = "CardNotFound"
    /\ DOMAIN cards # CardIds
    /\ \E sid \in DOMAIN sessions : sessions[sid].cardsReviewed > 0

\* C9 (Spec): addCard with an id already present throws DuplicateId and leaves
\* the card held under that id as it was.
C9_DuplicateIdRejected ==
    [][ \A id \in CardIds :
            (id \in DOMAIN cards /\ AddCard(id)) =>
                /\ thrown' = "DuplicateId"
                /\ cards' = cards ]_vars

\* C10 (Spec): startStudySession uses an id no held session has, so it
\* replaces no session and the scheduler holds one session more.
C10_FreshSessionId ==
    [][ StartStudySession =>
            /\ SessionId(now) \notin DOMAIN sessions
            /\ Cardinality(DOMAIN sessions') = Cardinality(DOMAIN sessions) + 1 ]_vars

\* a successful submitReview for card id: the session and the card are held
SubmittedFor(id) ==
    \E sid \in DOMAIN sessions : \E r \in ReviewResults :
        r.flashcardId = id /\ SubmitReview(sid, r)

\* C11 (Spec): while a card is held its totalReviews never decreases; a step
\* adds exactly 1 when it is a successful submitReview for that card and 0
\* otherwise.
C11_TotalReviewsCounts ==
    [][ \A id \in DOMAIN cards \cap DOMAIN cards' :
            cards'[id].totalReviews =
                cards[id].totalReviews + (IF SubmittedFor(id) THEN 1 ELSE 0) ]_vars

\* C12 (Spec): a card is due exactly when its nextReview is not after the
\* clock: due when nextReview equals now, due when it is earlier, not due
\* when it is later; getDueCards returns the cards that are due.
C12_IsDueBoundary ==
    \A id \in DOMAIN cards :
        /\ cards[id].nextReview = now => IsDue(cards[id], now)
        /\ cards[id].nextReview < now => IsDue(cards[id], now)
        /\ cards[id].nextReview > now => ~IsDue(cards[id], now)
        /\ cards[id] \in GetDueCards <=> ~(now < cards[id].nextReview)

\* one card due exactly now beside one due in the future
C12_Witness ==
    /\ \E id \in DOMAIN cards : cards[id].nextReview = now
    /\ \E id \in DOMAIN cards : cards[id].nextReview > now

----------------------------------------------------------------------------
(* Properties of the study order *)

Ordered == order.output # <<>>
Queue == order.output[1]

\* the number of places of the array s that hold x
Occurrences(x, s) == Cardinality({ i \in 1..Len(s) : s[i] = x })

\* C13 (OrderSpec): getOptimalStudyOrder returns exactly the due cards of the
\* array it is given: every card with nextReview <= now once, no card with
\* nextReview > now, nothing for an empty array; the array itself is left
\* as it was.
C13_ExactlyTheDueCards ==
    [][ StudyOrder =>
            LET in  == order.input
                out == order'.output[1]
            IN  /\ \A i \in 1..Len(in) :
                    Occurrences(in[i], out) = (IF in[i].nextReview <= now THEN 1 ELSE 0)
                /\ \A j \in 1..Len(out) : Occurrences(out[j], in) = 1
                /\ in = <<>> => out = <<>>
                /\ order'.input = in ]_vars

\* two due cards returned from an array that also held a card not yet due
C13_Witness ==
    /\ Ordered
    /\ Len(Queue) = 2
    /\ \E i \in 1..Len(order.input) : order.input[i].nextReview > now

\* C14 (OrderSpec): in the returned array each card is at least as overdue as
\* the next one, and of two neighbours equally overdue the first has the
\* lower or equal ease factor.
C14_MostOverdueThenHardest ==
    Ordered =>
        \A i \in 1..(Len(Queue) - 1) :
            /\ Queue[i].nextReview <= Queue[i + 1].nextReview
            /\ Queue[i].nextReview = Queue[i + 1].nextReview
                    => Queue[i].easeFactor <= Queue[i + 1].easeFactor

\* a tie on nextReview broken by ease factor against the order of the input,
\* behind a more overdue card
C14_Witness ==
    /\ Ordered
    /\ Len(Queue) = 3
    /\ Queue[1].nextReview < Queue[2].nextReview
    /\ Queue[2].nextReview = Queue[3].nextReview
    /\ Queue[2].easeFactor < Queue[3].easeFactor
    /\ order.input[1] = Queue[3]

----------------------------------------------------------------------------
(* Further properties of the engine *)

\* the last review was the first review of the default card
FirstReview ==
    /\ last # <<>>
    /\ last.before = CreateNewCard(EngineCard, 0)

----------------------------------------------------------------------------
(* Properties of statistics and persistence *)

\* the scheduler a fresh StudyScheduler becomes by importing what this one exports
Restored == Imported(EmptyMap, EmptyMap, ExportState(cards, sessions))

C17_ImportReplacesState ==
    [][ \A state \in ImportStates :
            ImportState(state) =>
                /\ DOMAIN cards' = DOMAIN state.cards
                /\ DOMAIN sessions' = DOMAIN state.sessions ]_vars

\* C18: reset leaves a scheduler with no card and no session, whose
\* statistics count nothing, and in which every session id is unknown.
C18_ResetEmpties ==
    [][ /\ Reset =>
            /\ cards' = EmptyMap
            /\ sessions' = EmptyMap
            /\ GetStats(cards', sessions', now').totalCards = 0
            /\ GetStats(cards', sessions', now').sessionsCompleted = 0
            /\ GetStats(cards', sessions', now').totalStudyTime = 0
        /\ \A sid \in SessionIds :
            (sessions = EmptyMap /\
                (EndStudySession(sid) \/ \E r \in ReviewResults : SubmitReview(sid, r)))
                => thrown' = "SessionNotFound" /\ cards' = cards /\ sessions' = sessions ]_vars

C18_Witness == cards = EmptyMap /\ sessions = EmptyMap /\ nSubmits > 0

ClosedIds == { sid \in DOMAIN sessions : Closed(sid) }

\* C19: the session statistics count only sessions that have an endTime:
\* open sessions add nothing, and with no closed session the average
\* session length is 0.
C19_StatsOverClosedSessions ==
    LET stats == GetStats(cards, sessions, now)
    IN  /\ stats.sessionsCompleted = Cardinality(ClosedIds)
        /\ stats.totalStudyTime = SumMap([ sid \in ClosedIds |-> sessions[sid].totalTime ])
        /\ stats = GetStats(cards, [ sid \in ClosedIds |-> sessions[sid] ], now)
        /\ ClosedIds = {} => stats.averageSessionLength = Zero /\ stats.totalStudyTime = 0
        /\ ClosedIds # {} =>
              stats.averageSessionLength = Ratio(stats.totalStudyTime, Cardinality(ClosedIds))

C19_Witness ==
    /\ \E sid \in DOMAIN sessions : ~Closed(sid) /\ sessions[sid].cardsReviewed > 0
    /\ \E sid \in DOMAIN sessions : Closed(sid) /\ sessions[sid].totalTime > 0

\* the number of reviews recorded with correct = TRUE in a session
CorrectResults(session) ==
    Cardinality({ i \in 1..Len(session.results) : session.results[i].correct })

----------------------------------------------------------------------------
(* Properties of the upcoming reviews *)

\* C21: getUpcomingReviews(days) has exactly the days keys today ..
\* today + days - 1; each key counts the cards whose nextReview falls on
\* that day, cards outside the window are not counted, and the counts sum
\* to at most the number of cards.
C21_UpcomingReviews ==
    \A days \in 0..MaxDays :
        LET upcoming == GetUpcomingReviews(cards, now, days)
            today    == DayOf(now)
            total    == SumMap(upcoming)
        IN  /\ Cardinality(DOMAIN upcoming) = days
            /\ DOMAIN upcoming = today..(today + days - 1)
            /\ \A d \in DOMAIN upcoming :
                  upcoming[d] = Cardinality({ id \in DOMAIN cards :
                                    DayOf(cards[id].nextReview) = d })
            /\ total <= Cardinality(DOMAIN cards)
            /\ total = Cardinality({ id \in DOMAIN cards :
                                    /\ today <= DayOf(cards[id].nextReview)
                                    /\ DayOf(cards[id].nextReview) < today + days })

C21_Witness ==
    /\ \E id \in DOMAIN cards : DayOf(cards[id].nextReview) < DayOf(now)
    /\ \E id \in DOMAIN cards : DayOf(cards[id].nextReview) = DayOf(now) + 1
    /\ GetUpcomingReviews(cards, now, 2)[DayOf(now) + 1] = 1
    /\ SumMap(GetUpcomingReviews(cards, now, 1)) = 0

----------------------------------------------------------------------------
(* Properties of the objects handed out *)

\* C23: a card object a caller has kept never changes; while it is the
\* scheduler's entry it equals that entry, and a submitReview for its id
\* replaces the entry by a new object with new values.
C23_CardsReplacedWhole ==
    [][ held.card # Null =>
            LET id == held.card[1].id
            IN  /\ held'.card = held.card
                /\ held.cardLive => id \in DOMAIN cards /\ cards[id] = held.card[1]
                /\ (/\ held.cardLive
                    /\ id \in DOMAIN cards'
                    /\ cards'[id].totalReviews > cards[id].totalReviews)
                   => /\ cards'[id] # held'.card[1]
                      /\ ~held'.cardLive ]_vars

C23_Witness ==
    /\ held.card # Null
    /\ held.card[1].id \in DOMAIN cards
    /\ cards[held.card[1].id].totalReviews > held.card[1].totalReviews

\* C24: a session object a caller has kept, and the sessions of a state a
\* caller has kept, do not change when submitReview or endStudySession is
\* applied to the scheduler afterwards.
C24_SessionsNotAliased ==
    [][ /\ held.session # Null => held'.session = held.session
        /\ held.state # Null => held'.state = held.state ]_vars

----------------------------------------------------------------------------
(* Properties of the quality ratings *)

Reviewed(q) == last # <<>> /\ last.quality = q

----------------------------------------------------------------------------
(* Properties of new cards and of concurrent callers *)

InStudyQueue(card) == \E i \in 1..Len(GetStudyQueue) : GetStudyQueue[i] = card

\* C27: from addCard on, at every later time and until a review of it is
\* submitted, a card is among the due cards and in the study queue.
C27_NewCardDue ==
    \A id \in DOMAIN cards :
        cards[id].lastReviewed = Null =>
            /\ cards[id].nextReview <= now
            /\ cards[id] \in GetDueCards
            /\ InStudyQueue(cards[id])

\* a card added on an earlier day and not reviewed since, queued before a
\* card added later
C27_Witness ==
    /\ Len(GetStudyQueue) = 2
    /\ GetStudyQueue[1].lastReviewed = Null
    /\ GetStudyQueue[1].nextReview < now
    /\ GetStudyQueue[2].lastReviewed = Null
    /\ GetStudyQueue[2].nextReview = now

Done == { p \in Callers : callers[p].done }

\* C28 (ConcurrentSpec): each submitReview call of a caller runs on the card
\* the calls before it left: it stores calculateNext of that card, and the
\* card's totalReviews is the number of calls made, 2 once both callers are
\* done, whichever went first.
C28_NoLostUpdate ==
    [][ \A p \in Callers :
            CallerSubmit(p) =>
                /\ thrown' = "none"
                /\ TheCard.totalReviews = Cardinality(Done)
                /\ cards'[EngineCard].totalReviews = Cardinality(Done) + 1
                /\ cards'[EngineCard].repetition =
                       IF callers[p].result.quality >= 3 THEN TheCard.repetition + 1 ELSE 0
                /\ cards'[EngineCard].lastReviewed = Some(now)
                /\ sessions'[SessionId(0)].cardsReviewed = Cardinality(Done) + 1
                /\ Done = Callers \ {p} => cards'[EngineCard].totalReviews = 2 ]_vars

\* both calls made, the failing review first and the successful one second
C28_Witness ==
    /\ Done = Callers
    /\ TheCard.totalReviews = 2
    /\ TheCard.repetition = 1
    /\ TheCard.easeFactor = 2400
    /\ \E p \in Callers : callers[p].result.quality = 5
    /\ \E p \in Callers : callers[p].result.quality = 1

----------------------------------------------------------------------------
(* Properties of the update rules *)

C30_IntervalRule ==
    (last # <<>> /\ last.quality >= 3) =>
        LET before  == last.before
            product == before.interval * before.easeFactor
        IN  /\ TheCard.repetition = before.repetition + 1
            /\ before.repetition = 0 => TheCard.interval = 1
            /\ before.repetition = 1 => TheCard.interval = 6
            /\ before.repetition >= 2 =>
                  /\ 1000 * TheCard.interval - 500 <= product
                  /\ product < 1000 * TheCard.interval + 500

\* a third success in a row, of quality 3: 6 x 2.5 = 15, where the lowered
\* ease factor 2.36 would have given 14
C30_Witness ==
    /\ Reviewed(3)
    /\ last.before.repetition = 2
    /\ last.before.interval = 6
    /\ last.before.easeFactor = 2500
    /\ TheCard.interval = 15
    /\ TheCard.easeFactor = 2360

----------------------------------------------------------------------------
(* Properties of reviewed cards and of sessions *)

\* C31: a reviewed card has nextReview = lastReviewed + interval days, with
\* lastReviewed a time of the clock not after now; it is not among the due
\* cards before that instant and is among them from that instant on.
C31_NextReviewAfterInterval ==
    \A id \in DOMAIN cards :
        cards[id].totalReviews > 0 =>
            LET card == cards[id]
                dueAt == card.lastReviewed[1] + card.interval * TicksPerDay
            IN  /\ card.lastReviewed # Null
                /\ card.lastReviewed[1] <= now
                /\ card.nextReview = dueAt
                /\ dueAt > card.lastReviewed[1]
                /\ now < dueAt => card \notin GetDueCards
                /\ now >= dueAt => card \in GetDueCards /\ InStudyQueue(card)

\* a card reviewed one interval ago: not due until now, due again now
C31_Witness ==
    \E id \in DOMAIN cards :
        /\ cards[id].lastReviewed # Null
        /\ cards[id].lastReviewed[1] < now
        /\ cards[id].nextReview = now
        /\ cards[id] \in GetDueCards


TheSession == sessions[SessionId(0)]

\* C32 (ConcurrentSpec): each submitReview that returns appends its result at
\* the end of the session's results and leaves the earlier entries as they
\* were, and always cardsReviewed = Len(results) and
\* 0 <= cardsCorrect <= cardsReviewed.
C32_ResultsAppendOnly ==
    [][ LET after == sessions'[SessionId(0)]
        IN  /\ \A p \in Callers :
                  CallerSubmit(p) =>
                      after.results = Append(TheSession.results, callers[p].result)
            /\ Len(after.results) >= Len(TheSession.results)
            /\ SubSeq(after.results, 1, Len(TheSession.results)) = TheSession.results
            /\ TheSession.cardsReviewed = Len(TheSession.results)
            /\ after.cardsReviewed = Len(after.results)
            /\ 0 <= after.cardsCorrect
            /\ after.cardsCorrect <= after.cardsReviewed ]_vars

\* both callers done, caller 2 first: its result comes first in the list
C32_Witness ==
    /\ Done = Callers
    /\ callers[1].result # callers[2].result
    /\ callers[1].result.correct
    /\ ~callers[2].result.correct
    /\ TheSession.results = <<callers[2].result, callers[1].result>>
    /\ TheSession.cardsReviewed = 2
    /\ TheSession.cardsCorrect = 1


\* C33: a session without endTime has totalTime 0; a session with endTime has
\* totalTime = endTime - startTime, which is not negative.
C33_TotalTime ==
    \A sid \in DOMAIN sessions :
        LET session == sessions[sid]
        IN  /\ session.endTime = Null => session.totalTime = 0
            /\ session.endTime # Null =>
                  /\ session.totalTime = session.endTime[1] - session.startTime
                  /\ session.totalTime >= 0
                  /\ session.endTime[1] <= now

\* a session that was ended after its start, beside an open one that was
\* started later
C33_Witness ==
    /\ \E sid \in DOMAIN sessions :
          /\ sessions[sid].endTime # Null
          /\ sessions[sid].endTime[1] > sessions[sid].startTime
          /\ sessions[sid].totalTime = MaxTime
    /\ \E sid \in DOMAIN sessions :
          /\ sessions[sid].endTime = Null
          /\ sessions[sid].startTime > 0
          /\ sessions[sid].totalTime = 0


----------------------------------------------------------------------------
(* Properties of calculateStats and of the legacy schedule *)

\* the number of cards given whose interval lies in lo .. hi
CardsWithin(lo, hi) ==
    Cardinality({ id \in DOMAIN cards : lo <= cards[id].interval /\ cards[id].interval <= hi })

\* C34 (StatsSpec): the four buckets count the cards with interval 1, 2..6,
\* 7..28 and 29 or more, so they sum to totalCards, which is the number of
\* cards given.
C34_IntervalBuckets ==
    call # <<>> =>
        LET stats   == call[1]
            buckets == stats.intervalDistribution
        IN  /\ stats.totalCards = Cardinality(DOMAIN cards)
            /\ buckets.day1 + buckets.days2to6 + buckets.weeks1to4 + buckets.months1plus
                  = stats.totalCards
            /\ buckets.day1 = CardsWithin(1, 1)
            /\ buckets.days2to6 = CardsWithin(2, 6)
            /\ buckets.weeks1to4 = CardsWithin(7, 28)
            /\ buckets.months1plus = Cardinality({ id \in DOMAIN cards :
                                          cards[id].interval >= 29 })

\* three cards at the limits 6, 28 and 29, one in each of three buckets
C34_Witness ==
    /\ call # <<>>
    /\ call[1].totalCards = 3
    /\ \E id \in DOMAIN cards : cards[id].interval = 6
    /\ \E id \in DOMAIN cards : cards[id].interval = 28
    /\ \E id \in DOMAIN cards : cards[id].interval = 29
    /\ call[1].intervalDistribution.day1 = 0
    /\ call[1].intervalDistribution.weeks1to4 = 1


\* C35 (LegacySpec): scheduleNextReview never returns less than 1; for
\* daysSinceLast >= 1 and quality >= 0 the result is greater than
\* daysSinceLast, and no smaller quality >= 0 gives a greater result.
C35_LegacySchedule ==
    call.result # <<>> =>
        LET result == call.result[1]
        IN  /\ result >= 100
            /\ (call.days >= 10 /\ call.quality >= 0) =>
                  /\ result > 10 * call.days
                  /\ \A q \in 0..call.quality :
                        ScheduleNextReview(call.days, q) <= result

\* scheduleNextReview(1, 0.3) = 1.6, above scheduleNextReview(1, 0) = 1.3
C35_Witness ==
    /\ call.result = <<160>>
    /\ call.days = 10
    /\ call.quality = 3
    /\ ScheduleNextReview(10, 0) = 130


----------------------------------------------------------------------------
(* Frame and conservation *)

\* C36: a submitReview that returns changes the entry of the reviewed card
\* and the session it was submitted to, and nothing else: no card or session
\* is added or removed, every other card and session is as before, and the
\* new card has the id of the old one.
C36_SubmitFrame ==
    [][ nSubmits' > nSubmits =>
            LET changedCards    == { id \in DOMAIN cards : cards'[id] # cards[id] }
                changedSessions == { sid \in DOMAIN sessions : sessions'[sid] # sessions[sid] }
            IN  /\ DOMAIN cards' = DOMAIN cards
                /\ DOMAIN sessions' = DOMAIN sessions
                /\ Cardinality(changedCards) = 1
                /\ Cardinality(changedSessions) = 1
                /\ \A id \in DOMAIN cards' : cards'[id].id = id
                /\ \A sid \in changedSessions :
                      LET results == sessions'[sid].results
                      IN  /\ results # <<>>
                          /\ changedCards = { results[Len(results)].flashcardId }
                          /\ sessions'[sid].id = sid ]_vars

\* a reviewed card and the session of the review, beside a card and a
\* session the review left as they were created
C36_Witness ==
    /\ nSubmits > 0
    /\ \E id \in DOMAIN cards : cards[id].totalReviews = 1
    /\ \E id \in DOMAIN cards : cards[id] = CreateNewCard(id, 0)
    /\ \E sid \in DOMAIN sessions : sessions[sid].cardsReviewed = 1
    /\ \E sid \in DOMAIN sessions : sessions[sid] = NewSession(0)


\* C37: on every card reached from a new card by reviews, the repetition
\* count fixes the interval (0 and 1 give 1 day, 2 gives 6 days, 3 or more
\* gives more than 6 days), the repetition count is at most the number of
\* reviews, and lastReviewed is undefined exactly on a card never reviewed.
C37_RepetitionAndInterval ==
    /\ TheCard.repetition \in {0, 1} => TheCard.interval = 1
    /\ TheCard.repetition = 2 => TheCard.interval = 6
    /\ TheCard.repetition >= 3 => TheCard.interval > 6
    /\ TheCard.repetition <= TheCard.totalReviews
    /\ (TheCard.lastReviewed = Null) <=> (TheCard.totalReviews = 0)

\* a card failed some times, then passed three times at ease 1.3 or little more
C37_Witness ==
    /\ TheCard.totalReviews > 3
    /\ TheCard.repetition = 3
    /\ TheCard.interval = 8
    /\ TheCard.lastReviewed # Null

\* C38: a review of quality 3, 4 or 5 never shortens the interval of a card
\* reached from a new card by reviews, and lengthens it when the card had a
\* repetition count of 1 or more.
C38_SuccessNeverShortens ==
    [][ \A q \in 3..5 :
            DeepReview(q) =>
                /\ cards'[EngineCard].interval >= TheCard.interval
                /\ TheCard.repetition >= 1 =>
                      cards'[EngineCard].interval > TheCard.interval ]_vars

\* a card at the floor ease 1.3 passed for at least the fourth time in a row
C38_Witness ==
    /\ TheCard.easeFactor = 1300
    /\ TheCard.repetition >= 4
    /\ TheCard.interval >= 10


\* C39: without importState and reset, and with no card id added twice, the
\* reviews counted on the cards are the reviews counted in the sessions:
\* the sum of totalReviews over the cards is the sum of cardsReviewed over
\* the sessions.
C39_ReviewsConserved ==
    SumMap([ id \in DOMAIN cards |-> cards[id].totalReviews ])
        = SumMap([ sid \in DOMAIN sessions |-> sessions[sid].cardsReviewed ])

====
